---- MODULE Spec2Model ----
(***************************************************************************)
(* Brain Vault (src/main.py): the per-user note store and the two          *)
(* interactive sessions of one user, as a state machine.                   *)
(*                                                                         *)
(* A text is a sequence of one-character strings.  A category name is a    *)
(* text (lower-cased, hashtag stripped).  An entry "<text> @ <timestamp>"  *)
(* is the pair <<text, timestamp>>: the timestamp has a fixed width, so    *)
(* two entry strings are equal exactly when text and timestamp are equal.  *)
(* The timestamp is the wall clock read to the second, the variable now.   *)
(***************************************************************************)
EXTENDS Integers, Sequences, FiniteSets, TLC

\* ------------------------------------------------------------------ bounds
\* No list of the store grows beyond MaxNotes entries.
MaxNotes == 2
\* The messages of SpecText have at most MaxTextLen characters.
MaxTextLen == 5
\* The wall clock runs over the seconds 0..MaxClock.
MaxClock == 1

\* -------------------------------------------------------------- characters
\* The characters of the model, in code point order (Python compares strings
\* by code point).
Alphabet == <<"\n", " ", "#", "-", "0", "1", "2", "A", "L", "W", "a", "l", "u", "w", "x">>

Ord(c) == CHOOSE i \in 1..Len(Alphabet) : Alphabet[i] = c

Digits == {"0", "1", "2"}
Upper == {"A", "L", "W"}
Letters == Upper \cup {"a", "l", "u", "w", "x"}

\* \w of the regular expressions (letters, digits, underscore)
IsWord(c) == c \in Letters \cup Digits
\* [\w-]
IsTagChar(c) == IsWord(c) \/ c = "-"
\* \s, and the characters str.strip() removes
IsSpace(c) == c \in {" ", "\n"}

\* str.lower(), one character
LowerChar(c) ==
  CASE c = "A" -> "a"
    [] c = "L" -> "l"
    [] c = "W" -> "w"
    [] OTHER -> c

\* str.lower()
Lower(s) == [i \in 1..Len(s) |-> LowerChar(s[i])]

RECURSIVE LStripSpace(_)
LStripSpace(s) ==
  IF s # <<>> /\ IsSpace(s[1]) THEN LStripSpace(Tail(s)) ELSE s

RECURSIVE RStripSpace(_)
RStripSpace(s) ==
  IF s # <<>> /\ IsSpace(s[Len(s)]) THEN RStripSpace(SubSeq(s, 1, Len(s) - 1)) ELSE s

\* str.strip()
Strip(s) == RStripSpace(LStripSpace(s))

\* str.lstrip('#')
RECURSIVE LStripHash(_)
LStripHash(s) ==
  IF s # <<>> /\ s[1] = "#" THEN LStripHash(Tail(s)) ELSE s

\* RemoveSpaces removing every whitespace character
RemoveSpaces_all(s) == SelectSeq(s, LAMBDA c : c \notin {" ", "\n"})

\* str.replace(" ", "")
RemoveSpaces(s) == SelectSeq(s, LAMBDA c : c # " ")

\* the last index of the run of characters satisfying [\w-] that starts at i
RECURSIVE TagRunEnd(_, _)
TagRunEnd(s, i) ==
  IF i + 1 <= Len(s) /\ IsTagChar(s[i + 1]) THEN TagRunEnd(s, i + 1) ELSE i

\* re.findall(r'#[\w-]+', s), scanning from index i: the non-overlapping
\* matches, leftmost first, each as long as possible
RECURSIVE FindAllFrom(_, _)
FindAllFrom(s, i) ==
  IF i > Len(s) THEN <<>>
  ELSE IF s[i] = "#" /\ i + 1 <= Len(s) /\ IsTagChar(s[i + 1])
       THEN LET e == TagRunEnd(s, i + 1)
            IN  <<SubSeq(s, i, e)>> \o FindAllFrom(s, e + 1)
       ELSE FindAllFrom(s, i + 1)

Range(f) == {f[i] : i \in DOMAIN f}

\* s < t as Python orders strings
RECURSIVE StrLess(_, _)
StrLess(s, t) ==
  IF t = <<>> THEN FALSE
  ELSE IF s = <<>> THEN TRUE
  ELSE IF s[1] = t[1] THEN StrLess(Tail(s), Tail(t))
  ELSE Ord(s[1]) < Ord(t[1])

\* sorted(S) for a set of strings
RECURSIVE Sorted(_)
Sorted(S) ==
  IF S = {} THEN <<>>
  ELSE LET m == CHOOSE x \in S : \A y \in S \ {x} : StrLess(x, y)
       IN  <<m>> \o Sorted(S \ {m})

\* extract_hashtags without the lower-casing
extract_hashtags_keepcase(text) ==
  Sorted({LStripHash(m) : m \in Range(FindAllFrom(text, 1))})

\* extract_hashtags(text)
extract_hashtags(text) ==
  Sorted({Lower(LStripHash(m)) : m \in Range(FindAllFrom(text, 1))})

\* "".join(f"#{tag}" for tag in hashtags)
RECURSIVE JoinTags(_)
JoinTags(tags) ==
  IF tags = <<>> THEN <<>> ELSE <<"#">> \o tags[1] \o JoinTags(Tail(tags))

\* the test of text_handler that makes a message a list of tags
IsPureTagList(text) == RemoveSpaces(text) = JoinTags(extract_hashtags(text))

\* int(), of a string of digits
RECURSIVE ParseInt(_)
ParseInt(d) ==
  IF d = <<>> THEN 0
  ELSE 10 * ParseInt(SubSeq(d, 1, Len(d) - 1)) + (Ord(d[Len(d)]) - Ord("0"))

RECURSIVE SpaceRunEnd(_, _)
SpaceRunEnd(s, i) ==
  IF i + 1 <= Len(s) /\ IsSpace(s[i + 1]) THEN SpaceRunEnd(s, i + 1) ELSE i

RECURSIVE DigitRunEnd(_, _)
DigitRunEnd(s, i) ==
  IF i + 1 <= Len(s) /\ s[i + 1] \in Digits THEN DigitRunEnd(s, i + 1) ELSE i

\* re.match(r'#([\w-]+)\s+(\d+)', s): the match is anchored at the start of s
\* only.  The result is <<>> for no match, else <<group 1, group 2>>.
MatchDelNote(s) ==
  IF ~(Len(s) >= 2 /\ s[1] = "#" /\ IsTagChar(s[2])) THEN <<>>
  ELSE LET e == TagRunEnd(s, 2)
       IN  IF ~(e + 1 <= Len(s) /\ IsSpace(s[e + 1])) THEN <<>>
           ELSE LET w == SpaceRunEnd(s, e + 1)
                IN  IF ~(w + 1 <= Len(s) /\ s[w + 1] \in Digits) THEN <<>>
                    ELSE <<SubSeq(s, 2, e), SubSeq(s, w + 1, DigitRunEnd(s, w + 1))>>

\* ------------------------------------------------------------------ inputs
ALL == <<"a", "l", "l">>
W == <<"w">>
U == <<"u">>

\* "all": a note without hashtags; as DeleteCategory input it names all
TxtAll == <<"a", "l", "l">>
\* "#w": a list of tags; as DeleteCategory input it names w
TxtTagW == <<"#", "w">>
\* " #u  #w ": a list of tags with more blanks
TxtTagsUW == <<" ", "#", "u", " ", " ", "#", "w", " ">>
\* "#w 1", "#u 1", "#all 1": DeleteNote inputs; outside an edit session "#w 1"
\* is a note with the hashtag w
TxtDelW1 == <<"#", "w", " ", "1">>
TxtDelU1 == <<"#", "u", " ", "1">>
TxtDelAll1 == <<"#", "a", "l", "l", " ", "1">>
\* "#ALL": DeleteCategory input naming all in upper case
TxtHashALL == <<"#", "A", "L", "L">>
\* "#w 0", "#w 2": DeleteNote inputs with the indices 0 and 2
TxtDelW0 == <<"#", "w", " ", "0">>
TxtDelW2 == <<"#", "w", " ", "2">>
\* "#w x", "#w 1x": DeleteNote inputs with a letter for or after the index
TxtDelWx == <<"#", "w", " ", "x">>
TxtDelW1x == <<"#", "w", " ", "1", "x">>

\* the messages the user sends while no edit action awaits its input
MsgTexts == {TxtAll, TxtTagW, TxtTagsUW, TxtDelW1}
\* the messages the user sends as the input of an edit action
EditTexts ==
  {TxtAll, TxtTagW, TxtTagsUW, TxtDelW1, TxtDelU1, TxtDelAll1, TxtHashALL,
   TxtDelW0, TxtDelW2, TxtDelWx, TxtDelW1x}
\* the arguments of /view: none, "#w", "all"
ViewArgs == {<<>>, <<TxtTagW>>, <<TxtAll>>}

\* ------------------------------------------------------------------- state
\* absent keys of user_data
NoText == <<>>
NoTs == -1
NoAction == "none"
NoStore == [c \in {} |-> <<>>]

VARIABLES
  notes,                \* user_data['notes']: category -> list of entries
  pending_note,         \* user_data['pending_note'], NoText when absent
  pending_note_ts,      \* user_data['pending_note_ts'], NoTs when absent
  selected_categories,  \* user_data['selected_categories'], {} when absent:
                        \* every read goes through setdefault(.., set())
  awaiting_action,      \* user_data['awaiting_action'], NoAction when absent
  now,                  \* the wall clock, in seconds
  reply,                \* the reply of the handler that ran, until it is sent
  shown,                \* the category buttons sent so far on keyboards
  menu,                 \* whether an edit menu has been sent
  gone,                 \* history, kept by SpecGone only: the categories that
                        \* DeleteCategory removed and no later message named
  sent                  \* history, kept by SpecText only: the message that
                        \* is being answered

vars == <<notes, pending_note, pending_note_ts, selected_categories,
          awaiting_action, now, reply, shown, menu, gone, sent>>

Reply(kind, cats) == [kind |-> kind, cats |-> cats]
NoReply == Reply("None", <<>>)

\* the updates of one user are handled one at a time (run_polling), and a
\* handler returns after its reply is sent: a handler runs when no reply is
\* waiting to be sent
Idle == reply = NoReply

\* get_current_timestamp()
get_current_timestamp == now

\* dict.setdefault(c, [])
SetDefault(n, c) ==
  [k \in DOMAIN n \cup {c} |-> IF k \in DOMAIN n THEN n[k] ELSE <<>>]

\* get_notes(context)
get_notes(n) == SetDefault(n, ALL)

\* KeyboardCats with a button for all
KeyboardCats_with_all(n) == Sorted(DOMAIN n)

\* the categories get_category_keyboard puts on buttons, in order; <<>> is
\* the keyboard None
KeyboardCats(n) == Sorted(DOMAIN n \ {ALL})

\* get_category_keyboard(notes, selected_cats): per button the category, the
\* check mark and the count; the Done button follows when there is a button
get_category_keyboard(n, selected_cats) ==
  LET cats == KeyboardCats(n)
  IN  [i \in 1..Len(cats) |->
         [cat |-> cats[i], checked |-> cats[i] \in selected_cats, count |-> Len(n[cats[i]])]]

\* SaveTimestamp reading the clock at the time of the save
SaveTimestamp_clock(ts, clock) == clock

\* the timestamp save_note uses: pop('pending_note_ts', get_current_timestamp())
SaveTimestamp(ts, clock) == IF ts = NoTs THEN clock ELSE ts

\* f"{note_text} @ {timestamp}"
Entry(note_text, timestamp) == <<note_text, timestamp>>

\* save_note without the append to all when a category is given
save_note_skips_all(n, entry, categories) ==
  LET n1 == get_notes(n)
  IN  [c \in DOMAIN n1 \cup (categories \ {ALL}) |->
         IF (c = ALL /\ categories \ {ALL} = {}) \/ (c # ALL /\ c \in categories)
         THEN Append(IF c \in DOMAIN n1 THEN n1[c] ELSE <<>>, entry)
         ELSE n1[c]]

\* save_note: the store after appending entry to all and to every category
\* of categories other than all
save_note(n, entry, categories) ==
  LET n1 == get_notes(n)
  IN  [c \in DOMAIN n1 \cup (categories \ {ALL}) |->
         IF c = ALL \/ c \in categories
         THEN Append(IF c \in DOMAIN n1 THEN n1[c] ELSE <<>>, entry)
         ELSE n1[c]]

\* the categories named in save_note's confirmation, sorted
SavedTo(categories) == Sorted(categories \cup {ALL})

\* list.pop(i), the list left
RemoveAt(s, i) == SubSeq(s, 1, i - 1) \o SubSeq(s, i + 1, Len(s))

\* the 1-based position of the first occurrence of e in s, 0 when absent
FirstIndex(s, e) ==
  IF \E i \in 1..Len(s) : s[i] = e
  THEN CHOOSE i \in 1..Len(s) : s[i] = e /\ \A j \in 1..(i - 1) : s[j] # e
  ELSE 0

\* list.remove(e), for e in s
RemoveFirst(s, e) == RemoveAt(s, FirstIndex(s, e))

\* no list is full: the bound of the model on the growth of the store
Room == \A c \in DOMAIN notes : Len(notes[c]) < MaxNotes

\* ---------------------------------------------------------- the edit flow
\* DeleteCategory without the protection of all
DeleteCategory_unprotected(n, text) ==
  LET cat_to_delete == Lower(LStripHash(text))
  IN  IF cat_to_delete \in DOMAIN n
      THEN [notes |-> [c \in DOMAIN n \ {cat_to_delete} |-> n[c]],
            reply |-> Reply("CategoryDeleted", <<cat_to_delete>>)]
      ELSE [notes |-> n, reply |-> Reply("NotFound", <<cat_to_delete>>)]

\* DeleteCategory removing the entries of the category from all as well
DeleteCategory_purges(n, text) ==
  LET cat_to_delete == Lower(LStripHash(text))
  IN  IF cat_to_delete = ALL
      THEN [notes |-> n, reply |-> Reply("ProtectedCategory", <<>>)]
      ELSE IF cat_to_delete \in DOMAIN n
      THEN [notes |-> [c \in DOMAIN n \ {cat_to_delete} |->
                         IF c = ALL
                         THEN SelectSeq(n[c], LAMBDA e : e \notin Range(n[cat_to_delete]))
                         ELSE n[c]],
            reply |-> Reply("CategoryDeleted", <<cat_to_delete>>)]
      ELSE [notes |-> n, reply |-> Reply("NotFound", <<cat_to_delete>>)]

\* handle_edit_input, action edit_delcat: the store left and the reply
DeleteCategory(n, text) ==
  LET cat_to_delete == Lower(LStripHash(text))
  IN  IF cat_to_delete = ALL
      THEN [notes |-> n, reply |-> Reply("ProtectedCategory", <<>>)]
      ELSE IF cat_to_delete \in DOMAIN n
      THEN [notes |-> [c \in DOMAIN n \ {cat_to_delete} |-> n[c]],
            reply |-> Reply("CategoryDeleted", <<cat_to_delete>>)]
      ELSE [notes |-> n, reply |-> Reply("NotFound", <<cat_to_delete>>)]

\* PopNote removing the popped entry from every list that holds it
PopNote_everywhere(n, cat_name, idx) ==
  LET deleted_note_entry == n[cat_name][idx]
      n1 == [n EXCEPT ![cat_name] = RemoveAt(@, idx)]
  IN  [c \in DOMAIN n1 |-> RemoveFirst(n1[c], deleted_note_entry)]

\* the store after notes[cat_name].pop(note_idx) and the removal of the
\* popped entry from all, when all (still) holds it; idx is 1-based
PopNote(n, cat_name, idx) ==
  LET deleted_note_entry == n[cat_name][idx]
      n1 == [n EXCEPT ![cat_name] = RemoveAt(@, idx)]
  IN  IF ALL \in DOMAIN n1 /\ FirstIndex(n1[ALL], deleted_note_entry) # 0
      THEN [n1 EXCEPT ![ALL] = RemoveFirst(@, deleted_note_entry)]
      ELSE n1

\* DeleteNote taking the number of the input as a 0-based index
DeleteNote_zero_based(n, text) ==
  LET match == MatchDelNote(Strip(text))
  IN  IF match = <<>>
      THEN [notes |-> n, reply |-> Reply("InvalidFormat", <<>>)]
      ELSE LET cat_name == Lower(match[1])
               note_idx == ParseInt(match[2])
           IN  IF cat_name \notin DOMAIN n \/ ~(0 <= note_idx /\ note_idx < Len(n[cat_name]))
               THEN [notes |-> n, reply |-> Reply("NotFound", <<cat_name>>)]
               ELSE [notes |-> PopNote(n, cat_name, note_idx + 1),
                     reply |-> Reply("NoteDeleted", <<cat_name>>)]

\* handle_edit_input, action edit_delnote: the store left and the reply
DeleteNote(n, text) ==
  LET match == MatchDelNote(Strip(text))
  IN  IF match = <<>>
      THEN [notes |-> n, reply |-> Reply("InvalidFormat", <<>>)]
      ELSE LET cat_name == Lower(match[1])
               note_idx == ParseInt(match[2]) - 1
           IN  IF cat_name \notin DOMAIN n \/ ~(0 <= note_idx /\ note_idx < Len(n[cat_name]))
               THEN [notes |-> n, reply |-> Reply("NotFound", <<cat_name>>)]
               ELSE [notes |-> PopNote(n, cat_name, note_idx + 1),
                     reply |-> Reply("NoteDeleted", <<cat_name>>)]

\* PopAction keeping the session after an input of the wrong format
PopAction_retry(action, res) ==
  IF res.reply.kind = "InvalidFormat" THEN action ELSE NoAction

\* user_data['awaiting_action'] after handle_edit_input's first statement,
\* pop('awaiting_action'), whatever the result res of the input
PopAction(action, res) == NoAction

\* handle_edit_input followed by the recording of the text as pending note
handle_edit_input_pending(n, action, text) ==
  LET res == IF action = "edit_delcat" THEN DeleteCategory(n, text)
                                       ELSE DeleteNote(n, text)
  IN  /\ awaiting_action' = PopAction(action, res)
      /\ notes' = res.notes
      /\ reply' = res.reply
      /\ pending_note' = text
      /\ pending_note_ts' = get_current_timestamp
      /\ selected_categories' = Range(extract_hashtags(text))
      /\ UNCHANGED <<now, shown, menu>>

\* handle_edit_input(update, context, action, text), on the store n
handle_edit_input(n, action, text) ==
  LET res == IF action = "edit_delcat" THEN DeleteCategory(n, text)
                                       ELSE DeleteNote(n, text)
  IN  /\ awaiting_action' = PopAction(action, res)
      /\ notes' = res.notes
      /\ reply' = res.reply
      /\ UNCHANGED <<pending_note, pending_note_ts, selected_categories, now, shown, menu>>

\* ----------------------------------------------------------- the save flow
\* CreateCategories assigning an empty list to every tag
CreateCategories_reset(n, hashtags) ==
  [c \in DOMAIN n \cup Range(hashtags) |->
     IF c \in DOMAIN n /\ c \notin Range(hashtags) THEN n[c] ELSE <<>>]

\* text_handler, the branch of a message that is a list of tags
CreateCategories(n, hashtags) ==
  [c \in DOMAIN n \cup Range(hashtags) |-> IF c \in DOMAIN n THEN n[c] ELSE <<>>]

\* text_handler(update, context), on the message raw
text_handler(raw) ==
  LET text == Strip(raw)
      n == get_notes(notes)
      hashtags == extract_hashtags(text)
  IN  /\ Idle
      /\ IF awaiting_action # NoAction
         THEN handle_edit_input(n, awaiting_action, text)
         ELSE IF IsPureTagList(text)
         THEN /\ notes' = CreateCategories(n, hashtags)
              /\ reply' = IF \E i \in 1..Len(hashtags) : hashtags[i] \notin DOMAIN n
                          THEN Reply("Created", SelectSeq(hashtags, LAMBDA t : t \notin DOMAIN n))
                          ELSE Reply("AlreadyExist", <<>>)
              /\ UNCHANGED <<pending_note, pending_note_ts, selected_categories,
                             awaiting_action, now, shown, menu>>
         ELSE IF KeyboardCats(n) # <<>>
         THEN /\ notes' = n
              /\ pending_note' = text
              /\ pending_note_ts' = get_current_timestamp
              /\ selected_categories' = Range(hashtags)
              /\ shown' = shown \cup Range(KeyboardCats(n))
              /\ reply' = Reply("SelectCategories", hashtags)
              /\ UNCHANGED <<awaiting_action, now, menu>>
         ELSE /\ Room
              /\ notes' = save_note(n, Entry(text, SaveTimestamp(get_current_timestamp, now)),
                                    Range(hashtags))
              /\ pending_note' = NoText
              /\ pending_note_ts' = NoTs
              /\ selected_categories' = {}
              /\ reply' = Reply("Saved", SavedTo(Range(hashtags)))
              /\ UNCHANGED <<awaiting_action, now, shown, menu>>

\* callback data is "cat_" followed by a category, or "cat_done"; the model
\* keeps what follows the prefix
DONE == <<"d", "o", "n", "e">>

\* Toggle that only selects
Toggle_add(selected_cats, cat_name) == selected_cats \cup {cat_name}

\* category_callback, the toggle of cat_name
Toggle(selected_cats, cat_name) ==
  IF cat_name \in selected_cats THEN selected_cats \ {cat_name}
                                ELSE selected_cats \cup {cat_name}

\* PopPending reading the pending note without removing it
PopPending_get(note_text) == note_text

\* user_data['pending_note'] after pop('pending_note', None)
PopPending(note_text) == NoText

\* category_callback(update, context), on the button data
category_callback(data) ==
  LET n == get_notes(notes)
      selected_cats == selected_categories
  IN  /\ Idle
      /\ shown # {}
      /\ IF data = DONE
         THEN IF pending_note = NoText
              THEN /\ notes' = n
                   /\ reply' = Reply("NoPendingNote", <<>>)
                   /\ UNCHANGED <<pending_note, pending_note_ts, selected_categories,
                                  awaiting_action, now, shown, menu>>
              ELSE /\ Room
                   /\ notes' = save_note(n, Entry(pending_note, SaveTimestamp(pending_note_ts, now)),
                                         selected_cats)
                   /\ pending_note' = PopPending(pending_note)
                   /\ pending_note_ts' = NoTs
                   /\ selected_categories' = {}
                   /\ reply' = Reply("Saved", SavedTo(selected_cats))
                   /\ UNCHANGED <<awaiting_action, now, shown, menu>>
         ELSE /\ notes' = n
              /\ selected_categories' = Toggle(selected_cats, data)
              /\ shown' = shown \cup Range(KeyboardCats(n))
              /\ reply' = Reply("Keyboard", Sorted(selected_categories'))
              /\ UNCHANGED <<pending_note, pending_note_ts, awaiting_action, now, menu>>

\* edit dropping the pending note
edit_cancels ==
  /\ Idle
  /\ menu' = TRUE
  /\ reply' = Reply("EditMenu", <<>>)
  /\ pending_note' = NoText
  /\ pending_note_ts' = NoTs
  /\ selected_categories' = {}
  /\ UNCHANGED <<notes, awaiting_action, now, shown>>

\* edit(update, context): the menu of the two edit actions
edit ==
  /\ Idle
  /\ menu' = TRUE
  /\ reply' = Reply("EditMenu", <<>>)
  /\ UNCHANGED <<notes, pending_note, pending_note_ts, selected_categories,
                 awaiting_action, now, shown>>

\* edit_option_callback discarding the pending selection
edit_option_callback_discards(action) ==
  /\ Idle
  /\ menu
  /\ awaiting_action' = action
  /\ pending_note' = NoText
  /\ pending_note_ts' = NoTs
  /\ selected_categories' = {}
  /\ reply' = Reply("Prompt", <<>>)
  /\ UNCHANGED <<notes, now, shown, menu>>

\* edit_option_callback(update, context), on the button data
edit_option_callback(action) ==
  /\ Idle
  /\ menu
  /\ awaiting_action' = action
  /\ reply' = Reply("Prompt", <<>>)
  /\ UNCHANGED <<notes, pending_note, pending_note_ts, selected_categories,
                 now, shown, menu>>

\* ------------------------------------------------------- view and export
\* the categories view and export render, in order: those with entries,
\* sorted, all moved to the front
RenderedCats(n) ==
  LET sorted_cats == Sorted({c \in DOMAIN n : n[c] # <<>>})
  IN  IF ALL \in Range(sorted_cats)
      THEN <<ALL>> \o SelectSeq(sorted_cats, LAMBDA c : c # ALL)
      ELSE sorted_cats

\* view(update, context): the reply names the categories rendered; each is
\* rendered with its entries in list order, numbered from 1
ViewReply(n, args) ==
  IF args # <<>>
  THEN LET cat_name == Lower(LStripHash(args[1]))
       IN  IF cat_name \notin DOMAIN n \/ n[cat_name] = <<>>
           THEN Reply("NoEntries", <<cat_name>>)
           ELSE Reply("ViewCategory", <<cat_name>>)
  ELSE IF Len(n[ALL]) = 0
       THEN Reply("EmptyVault", <<>>)
       ELSE Reply("ViewAll", RenderedCats(n))

view(args) ==
  /\ Idle
  /\ notes' = get_notes(notes)
  /\ reply' = ViewReply(notes', args)
  /\ UNCHANGED <<pending_note, pending_note_ts, selected_categories,
                 awaiting_action, now, shown, menu>>

\* export(update, context)
ExportReply(n) ==
  IF n[ALL] = <<>> THEN Reply("NothingToExport", <<>>)
                   ELSE Reply("Export", RenderedCats(n))

export ==
  /\ Idle
  /\ notes' = get_notes(notes)
  /\ reply' = ExportReply(notes')
  /\ UNCHANGED <<pending_note, pending_note_ts, selected_categories,
                 awaiting_action, now, shown, menu>>

\* start(update, context)
start ==
  /\ Idle
  /\ reply' = Reply("Welcome", <<>>)
  /\ UNCHANGED <<notes, pending_note, pending_note_ts, selected_categories,
                 awaiting_action, now, shown, menu>>

\* a second passes on the wall clock
Tick ==
  /\ Idle
  /\ now < MaxClock
  /\ now' = now + 1
  /\ UNCHANGED <<notes, pending_note, pending_note_ts, selected_categories,
                 awaiting_action, reply, shown, menu>>

\* ------------------------------------------------------- specification
Init ==
  /\ notes = NoStore
  /\ pending_note = NoText
  /\ pending_note_ts = NoTs
  /\ selected_categories = {}
  /\ awaiting_action = NoAction
  /\ now = 0
  /\ reply = NoReply
  /\ shown = {}
  /\ menu = FALSE
  /\ gone = {}
  /\ sent = NoText

\* the messages the user may send in the current state
Inputs == IF awaiting_action = NoAction THEN MsgTexts ELSE EditTexts

\* the reply of the handler is sent
Deliver ==
  /\ reply # NoReply
  /\ reply' = NoReply
  /\ UNCHANGED <<notes, pending_note, pending_note_ts, selected_categories,
                 awaiting_action, now, shown, menu>>

Next ==
  \/ (\E raw \in Inputs : text_handler(raw)) /\ UNCHANGED <<gone, sent>>
  \/ (\E data \in {DONE} \cup shown : category_callback(data)) /\ UNCHANGED <<gone, sent>>
  \/ edit /\ UNCHANGED <<gone, sent>>
  \/ (\E action \in {"edit_delcat", "edit_delnote"} : edit_option_callback(action))
       /\ UNCHANGED <<gone, sent>>
  \/ (\E args \in ViewArgs : view(args)) /\ UNCHANGED <<gone, sent>>
  \/ export /\ UNCHANGED <<gone, sent>>
  \/ start /\ UNCHANGED <<gone, sent>>
  \/ Tick /\ UNCHANGED <<gone, sent>>
  \/ Deliver /\ UNCHANGED <<gone, sent>>

Spec == Init /\ [][Next]_vars

\* ------------------------------------------- the handling of one message
\* the characters of the messages of SpecText
TextChars == {"#", "a", "w", "A", " ", "\n"}

\* every message of at most MaxTextLen characters that is not empty once
\* stripped (the transport delivers no empty text)
GenTexts ==
  {t \in UNION {[1..k -> TextChars] : k \in 1..MaxTextLen} : Strip(t) # <<>>}

\* the store holds no note, no note is pending and at most one category
\* other than all exists
FirstMessage ==
  /\ pending_note = NoText
  /\ \A c \in DOMAIN notes : notes[c] = <<>>
  /\ Cardinality(DOMAIN notes \ {ALL}) <= 1

\* text_handler on every message of GenTexts, in the stores FirstMessage
\* describes
NextText ==
  \/ FirstMessage /\ Idle /\ (\E raw \in GenTexts : text_handler(raw) /\ sent' = raw)
       /\ UNCHANGED gone
  \/ Deliver /\ sent' = NoText /\ UNCHANGED gone

SpecText == Init /\ [][NextText]_vars

\* ------------------------------------------ the history of the deletions
\* gone after a text message: the categories the message names leave it, the
\* category DeleteCategory removed in this step enters it
GoneAfter(raw) ==
  (gone \ Range(extract_hashtags(Strip(raw))))
    \cup (IF reply'.kind = "CategoryDeleted" THEN Range(reply'.cats) ELSE {})

\* Next, recording in gone the categories deleted and not named since
NextGone ==
  \/ (\E raw \in Inputs : text_handler(raw) /\ gone' = GoneAfter(raw)) /\ UNCHANGED sent
  \/ (\E data \in {DONE} \cup shown : category_callback(data)) /\ UNCHANGED <<gone, sent>>
  \/ edit /\ UNCHANGED <<gone, sent>>
  \/ (\E action \in {"edit_delcat", "edit_delnote"} : edit_option_callback(action))
       /\ UNCHANGED <<gone, sent>>
  \/ (\E args \in ViewArgs : view(args)) /\ UNCHANGED <<gone, sent>>
  \/ export /\ UNCHANGED <<gone, sent>>
  \/ start /\ UNCHANGED <<gone, sent>>
  \/ Tick /\ UNCHANGED <<gone, sent>>
  \/ Deliver /\ UNCHANGED <<gone, sent>>

SpecGone == Init /\ [][NextGone]_vars

\* ==================================================================
\* Properties
\* ==================================================================
\* every entry of a category other than all is an entry of all
AllHoldsEvery ==
  \A c \in DOMAIN notes \ {ALL} :
    \A i \in 1..Len(notes[c]) :
      /\ ALL \in DOMAIN notes
      /\ \E j \in 1..Len(notes[ALL]) : notes[ALL][j] = notes[c][i]

\* C1 as stated: in every reachable state every entry in the list of a
\* category other than all also appears in the list of all.
C1_AllHoldsEveryAlways == AllHoldsEvery

\* C1, amended: every step other than a successful DeleteNote keeps "every
\* entry of a category other than all is an entry of all"; the property holds
\* in the initial state, so only a successful DeleteNote ever breaks it.
C1_AllHoldsEveryKept ==
  [][(AllHoldsEvery /\ reply'.kind # "NoteDeleted") => AllHoldsEvery']_vars

\* a note was just saved to w, and all holds every entry
C1_Witness ==
  /\ reply.kind = "Saved"
  /\ W \in DOMAIN notes
  /\ notes[W] # <<>>
  /\ AllHoldsEvery

\* the messages that name all as DeleteCategory input: "all", "#ALL"
NamesAll == {TxtAll, TxtHashALL}

\* C2: once the store exists it maps all, in every state; no step removes the
\* mapping of all; a DeleteCategory input naming all (with or without the
\* hashtag, in lower or upper case) is answered ProtectedCategory and leaves
\* the store as get_notes returns it unchanged.
C2_AllProtected ==
  [][/\ (ALL \in DOMAIN notes => ALL \in DOMAIN notes')
     /\ (notes' # NoStore => ALL \in DOMAIN notes')
     /\ \A raw \in NamesAll :
          (awaiting_action = "edit_delcat" /\ text_handler(raw)) =>
            /\ reply'.kind = "ProtectedCategory"
            /\ notes' = get_notes(notes)
            /\ DOMAIN notes' = DOMAIN notes \cup {ALL}
            /\ \A c \in DOMAIN notes : notes'[c] = notes[c]]_vars

\* DeleteCategory naming all was just refused on a store with a note
C2_Witness ==
  /\ reply.kind = "ProtectedCategory"
  /\ ALL \in DOMAIN notes
  /\ notes[ALL] # <<>>
  /\ DOMAIN notes # {ALL}

\* the DeleteNote inputs on a category other than all: message, category, index
DelNoteInputs == {<<TxtDelW1, W, 1>>, <<TxtDelU1, U, 1>>}

\* s without its element at position i
Without(s, i) == [k \in 1..(Len(s) - 1) |-> IF k < i THEN s[k] ELSE s[k + 1]]

\* e occurs in s for the first time at position k
FirstAt(s, e, k) == k \in 1..Len(s) /\ s[k] = e /\ \A j \in 1..(k - 1) : s[j] # e

\* the step is a successful DeleteNote of the input d = <<message, c, i>>
DeletesNote(d) ==
  /\ awaiting_action = "edit_delnote"
  /\ text_handler(d[1])
  /\ reply'.kind = "NoteDeleted"

\* the effect of DeleteNote on the category named and on the others
DelNoteFrame(d) ==
  /\ DOMAIN notes' = DOMAIN notes
  /\ notes'[d[2]] = Without(notes[d[2]], d[3])
  /\ \A c \in DOMAIN notes \ {d[2], ALL} : notes'[c] = notes[c]

\* C3 as stated: a successful DeleteNote on c other than all at index i
\* removes exactly the entry at position i of c, removes one equal entry (the
\* first) from all, and leaves every other category's list unchanged.
C3_DeleteNoteRemovesFromAll ==
  [][\A d \in DelNoteInputs :
       DeletesNote(d) =>
         /\ DelNoteFrame(d)
         /\ \E k \in 1..Len(notes[ALL]) :
              /\ FirstAt(notes[ALL], notes[d[2]][d[3]], k)
              /\ notes'[ALL] = Without(notes[ALL], k)]_vars

\* C3, amended: a successful DeleteNote on c other than all at index i
\* removes exactly the entry at position i of c, removes the first equal
\* entry from all when all holds one and leaves all unchanged otherwise, and
\* leaves every other category's list unchanged; an equal entry filed under
\* another category stays there.
C3_DeleteNoteEffect ==
  [][\A d \in DelNoteInputs :
       DeletesNote(d) =>
         LET e == notes[d[2]][d[3]]
         IN  /\ DelNoteFrame(d)
             /\ IF \E k \in 1..Len(notes[ALL]) : notes[ALL][k] = e
                THEN \E k \in 1..Len(notes[ALL]) :
                       /\ FirstAt(notes[ALL], e, k)
                       /\ notes'[ALL] = Without(notes[ALL], k)
                ELSE notes'[ALL] = notes[ALL]]_vars

\* a note was just deleted from w: u still holds an entry that neither w nor
\* all holds
C3_Witness ==
  /\ reply = Reply("NoteDeleted", <<W>>)
  /\ U \in DOMAIN notes
  /\ \E i \in 1..Len(notes[U]) :
       /\ \A j \in 1..Len(notes[W]) : notes[W][j] # notes[U][i]
       /\ \A j \in 1..Len(notes[ALL]) : notes[ALL][j] # notes[U][i]

\* the replies of the edit flow
EditReplies == {"ProtectedCategory", "CategoryDeleted", "NotFound", "InvalidFormat", "NoteDeleted"}

\* s is a prefix of t
IsPrefix(s, t) == Len(s) <= Len(t) /\ \A i \in 1..Len(s) : s[i] = t[i]

\* the step removes no category and no entry
DeletesNothing ==
  \A c \in DOMAIN notes : c \in DOMAIN notes' /\ IsPrefix(notes[c], notes'[c])

\* C4: the first text message after an edit button press ends the edit
\* session, whatever the text and the outcome; a text message received with
\* no edit session is not edit input (no edit reply, no category and no entry
\* removed, no session opened); only an edit button press opens a session.
C4_EditSessionSingleShot ==
  [][/\ \A raw \in EditTexts :
          (awaiting_action # NoAction /\ text_handler(raw)) =>
            awaiting_action' = NoAction /\ reply'.kind \in EditReplies
     /\ \A raw \in MsgTexts :
          (awaiting_action = NoAction /\ text_handler(raw)) =>
            /\ reply'.kind \notin EditReplies
            /\ DeletesNothing
            /\ awaiting_action' = NoAction
     /\ (awaiting_action = NoAction /\ awaiting_action' # NoAction) =>
          reply'.kind = "Prompt"]_vars

\* an input of the wrong format was just refused: the session is gone
C4_Witness ==
  /\ reply.kind = "InvalidFormat"
  /\ awaiting_action = NoAction
  /\ \E c \in DOMAIN notes : notes[c] # <<>>

SelectionActive == pending_note # NoText
EditActive == awaiting_action # NoAction

\* C5 as stated: a pending note awaiting Done and an edit action awaiting its
\* input are never both active.
C5_OneSessionKind == ~(SelectionActive /\ EditActive)

\* C5, amended: an edit button press leaves a pending note in place, so both
\* sessions are active after an edit button is pressed while a note is
\* pending; no other step makes both active (a text message received during
\* an edit session never opens a selection session), and while both are
\* active the pending note is unchanged.
C5_BothOnlyByEditButton ==
  [][/\ reply'.kind = "Prompt" =>
          /\ awaiting_action' \in {"edit_delcat", "edit_delnote"}
          /\ UNCHANGED <<pending_note, pending_note_ts, selected_categories>>
     /\ (SelectionActive' /\ EditActive') =>
          /\ SelectionActive
          /\ UNCHANGED <<pending_note, pending_note_ts>>
          /\ EditActive \/ reply'.kind = "Prompt"]_vars

\* an edit button was just pressed while a note is pending
C5_Witness ==
  /\ reply.kind = "Prompt"
  /\ SelectionActive
  /\ EditActive

\* C6: view without an argument renders every category whose list is not
\* empty, all first and the others in lexicographic order.
C6_ViewRendersNonEmpty ==
  reply.kind \in {"ViewAll", "EmptyVault"} =>
    /\ \A c \in DOMAIN notes : notes[c] # <<>> => c \in Range(reply.cats)
    /\ \A i \in 1..Len(reply.cats) :
         /\ reply.cats[i] \in DOMAIN notes
         /\ notes[reply.cats[i]] # <<>>
         /\ reply.cats[i] = ALL => i = 1
         /\ \A j \in (i + 1)..Len(reply.cats) :
              reply.cats[i] = ALL \/ StrLess(reply.cats[i], reply.cats[j])

LenAll(n) == IF ALL \in DOMAIN n THEN Len(n[ALL]) ELSE 0

\* C7: Done with no pending note is answered NoPendingNote and leaves the
\* store unchanged; a step that appends to all appends one entry and leaves
\* no pending note, so no pending text is appended to all twice.
C7_DoneWithoutPending ==
  [][/\ (category_callback(DONE) /\ pending_note = NoText) =>
          /\ reply'.kind = "NoPendingNote"
          /\ notes' = notes
          /\ pending_note' = NoText
     /\ LenAll(notes') > LenAll(notes) =>
          /\ LenAll(notes') = LenAll(notes) + 1
          /\ pending_note' = NoText
          /\ reply'.kind = "Saved"
     /\ (category_callback(DONE) /\ pending_note # NoText) =>
          /\ LenAll(notes') = LenAll(notes) + 1
          /\ notes'[ALL][Len(notes'[ALL])][1] = pending_note]_vars

\* Done was just pressed with no pending note, on a store with a note
C7_Witness ==
  /\ reply.kind = "NoPendingNote"
  /\ LenAll(notes) > 0

\* C8: a note message that opens a selection stores its text with the clock
\* of that moment; no step other than a note message or a commit changes the
\* pending text and timestamp; Done appends the entry made of the pending
\* text and the stored timestamp, the same entry, to all and to every
\* selected category.
C8_TimestampFrozen ==
  [][/\ \A raw \in MsgTexts :
          (text_handler(raw) /\ reply'.kind = "SelectCategories") =>
            /\ pending_note' # NoText
            /\ pending_note' \in {raw, Strip(raw)}
            /\ pending_note_ts' = now
     /\ (SelectionActive /\ reply'.kind \notin {"SelectCategories", "Saved"}) =>
          UNCHANGED <<pending_note, pending_note_ts>>
     /\ (category_callback(DONE) /\ SelectionActive) =>
          LET e == <<pending_note, pending_note_ts>>
          IN  /\ pending_note_ts # NoTs
              /\ notes'[ALL] = Append(notes[ALL], e)
              /\ \A c \in selected_categories \ {ALL} :
                   /\ c \in DOMAIN notes'
                   /\ notes'[c] = Append(IF c \in DOMAIN notes THEN notes[c] ELSE <<>>, e)
              /\ \A c \in DOMAIN notes \ (selected_categories \cup {ALL}) :
                   c \in DOMAIN notes' /\ notes'[c] = notes[c]]_vars

\* a note was just committed to all and w with a timestamp older than the
\* clock: Done was pressed after the clock advanced
C8_Witness ==
  /\ reply.kind = "Saved"
  /\ W \in DOMAIN notes
  /\ notes[W] # <<>>
  /\ notes[ALL] # <<>>
  /\ notes[ALL][Len(notes[ALL])][2] < now
  /\ notes[W][Len(notes[W])] = notes[ALL][Len(notes[ALL])]

\* C9: a toggle of c flips the membership of c in the selected set and
\* changes neither the store nor the pending text and timestamp; a second
\* toggle of c restores the set, and toggles of c and d commute.
C9_ToggleAlgebra ==
  [][\A c \in shown :
       category_callback(c) =>
         /\ selected_categories' = (selected_categories \ {c}) \cup ({c} \ selected_categories)
         /\ Toggle(selected_categories', c) = selected_categories
         /\ \A d \in shown \cup {U, W} :
              Toggle(Toggle(selected_categories, c), d) = Toggle(Toggle(selected_categories, d), c)
         /\ notes' = notes
         /\ UNCHANGED <<pending_note, pending_note_ts>>
         /\ reply'.kind = "Keyboard"]_vars

\* a toggle just deselected a category while a note is pending
C9_Witness ==
  /\ reply.kind = "Keyboard"
  /\ SelectionActive
  /\ W \notin selected_categories
  /\ U \in selected_categories

\* the messages that are lists of tags, with their tags
TagListInputs == {<<TxtTagW, {W}>>, <<TxtTagsUW, {U, W}>>}

\* C10: a message handled as a list of tags creates an empty category for
\* each of its tags that is absent, appends nothing and leaves the lists of
\* the existing categories unchanged; when all its tags exist it is answered
\* "already exist" and changes nothing, which is the case when the same
\* message is sent again.
C10_TagListCreatesEmpty ==
  [][\A t \in TagListInputs :
       (awaiting_action = NoAction /\ text_handler(t[1])) =>
         /\ reply'.kind \in {"Created", "AlreadyExist"}
         /\ DOMAIN notes' = DOMAIN notes \cup t[2] \cup {ALL}
         /\ \A c \in DOMAIN notes : notes'[c] = notes[c]
         /\ \A c \in DOMAIN notes' \ DOMAIN notes : notes'[c] = <<>>
         /\ UNCHANGED <<pending_note, pending_note_ts, selected_categories>>
         /\ reply'.kind = "AlreadyExist" <=> t[2] \subseteq DOMAIN notes
         /\ t[2] \subseteq DOMAIN notes => notes' = get_notes(notes)]_vars

\* the list of tags was just sent again: the categories exist, w with a note
C10_Witness ==
  /\ reply.kind = "AlreadyExist"
  /\ {U, W} \subseteq DOMAIN notes
  /\ notes[W] # <<>>

\* ------------------------------------------------ properties of SpecText
\* the positions of s where a hashtag token starts
HashAt(s) == {i \in 1..Len(s) : s[i] = "#" /\ i < Len(s) /\ IsTagChar(s[i + 1])}

\* the token that starts at position i of s, without its "#"
TokenAt(s, i) ==
  LET e == CHOOSE e \in i..Len(s) :
             /\ \A k \in (i + 1)..e : IsTagChar(s[k])
             /\ e = Len(s) \/ ~IsTagChar(s[e + 1])
  IN  SubSeq(s, i + 1, e)

\* s is made of hashtag tokens and whitespace only
OnlyHashtagTokens(s) ==
  /\ HashAt(s) # {}
  /\ \A i \in 1..Len(s) :
       /\ IsSpace(s[i]) \/ s[i] = "#" \/ IsTagChar(s[i])
       /\ s[i] = "#" => i \in HashAt(s)
       /\ IsTagChar(s[i]) => i > 1 /\ (s[i - 1] = "#" \/ IsTagChar(s[i - 1]))

\* s is made of hashtag tokens in lower case and blanks only, and its tokens
\* are in strictly increasing order
CanonicalTagList(s) ==
  /\ OnlyHashtagTokens(s)
  /\ \A i \in 1..Len(s) : s[i] # "\n" /\ s[i] \notin Upper
  /\ \A i, j \in HashAt(s) : i < j => StrLess(TokenAt(s, i), TokenAt(s, j))

\* the text of the last entry of all
LastSavedText == notes[ALL][Len(notes[ALL])][1]

LowerOf(tag, tok) ==
  /\ Len(tag) = Len(tok)
  /\ \A k \in 1..Len(tok) :
       /\ tag[k] \notin Upper
       /\ tag[k] = tok[k] \/ <<tok[k], tag[k]>> \in {<<"A", "a">>, <<"L", "l">>, <<"W", "w">>}

\* C12: the tags extracted from a message are its hashtag tokens without the
\* "#", in lower case, each once, in lexicographic order.
C12_ExtractSortedLowerUnique ==
  reply.kind = "SelectCategories" =>
    LET s == pending_note
        tags == reply.cats
    IN  /\ \A k \in 1..Len(tags) : \E i \in HashAt(s) : LowerOf(tags[k], TokenAt(s, i))
        /\ \A i \in HashAt(s) : \E k \in 1..Len(tags) : LowerOf(tags[k], TokenAt(s, i))
        /\ \A k \in 1..(Len(tags) - 1) : StrLess(tags[k], tags[k + 1])
        /\ selected_categories = Range(tags)

\* the message "#w#A" gave the tags a, w
C12_Witness ==
  /\ reply = Reply("SelectCategories", << <<"a">>, <<"w">> >>)
  /\ pending_note = <<"#", "w", "#", "A">>

\* ---------------------------------------------- properties of the edit flow
\* the step leaves the store as it was, but for the empty list of all that
\* the first access to the store creates
StoreKept ==
  /\ DOMAIN notes' = DOMAIN notes \cup {ALL}
  /\ \A c \in DOMAIN notes : notes'[c] = notes[c]
  /\ ALL \notin DOMAIN notes => notes'[ALL] = <<>>

\* DeleteCategory inputs that do not name all, with the category they name
DelCatInputs ==
  {<<TxtTagW, W>>,
   <<TxtDelW1, <<"w", " ", "1">> >>,
   <<TxtDelU1, <<"u", " ", "1">> >>,
   <<TxtTagsUW, <<"u", " ", " ", "#", "w">> >>}

\* C13: DeleteCategory on an existing category c other than all removes the
\* mapping of c and nothing else (all and every other list are unchanged);
\* on a name that is not in the store it is answered NotFound and the store is
\* unchanged.
C13_DeleteCategoryFrame ==
  [][\A d \in DelCatInputs :
       (awaiting_action = "edit_delcat" /\ text_handler(d[1])) =>
         IF d[2] \in DOMAIN notes
         THEN /\ reply'.kind = "CategoryDeleted"
              /\ DOMAIN notes' = DOMAIN notes \ {d[2]}
              /\ \A c \in DOMAIN notes' : notes'[c] = notes[c]
         ELSE reply'.kind = "NotFound" /\ StoreKept]_vars

\* w was just deleted; all still holds a note filed under w, and u is kept
C13_Witness ==
  /\ reply = Reply("CategoryDeleted", <<W>>)
  /\ W \notin DOMAIN notes
  /\ U \in DOMAIN notes
  /\ \E i \in 1..Len(notes[ALL]) : notes[ALL][i][1] = TxtDelW1

\* DeleteNote inputs that are not of the form #<tag> <positive integer>
MalformedDelNote == {TxtAll, TxtTagW, TxtTagsUW, TxtHashALL, TxtDelWx, TxtDelW1x}

\* C14: a DeleteNote input that is not exactly of the form
\* #<tag> <positive integer>, such as "#w x", "#w" or "#w 1x", is answered
\* InvalidFormat and removes no note from any list.
C14_MalformedRejected ==
  [][\A raw \in MalformedDelNote :
       (awaiting_action = "edit_delnote" /\ text_handler(raw)) =>
         reply'.kind = "InvalidFormat" /\ StoreKept]_vars

\* well-formed DeleteNote inputs, with the category and the index they name
WellFormedDelNote ==
  {<<TxtDelW0, W, 0>>, <<TxtDelW1, W, 1>>, <<TxtDelW2, W, 2>>,
   <<TxtDelU1, U, 1>>, <<TxtDelAll1, ALL, 1>>}

\* C15: a well-formed DeleteNote input whose category is not in the store, or
\* whose index is 0 or greater than the length of the category's list, is
\* answered NotFound and removes no entry from any list.
C15_OutOfRangeNotFound ==
  [][\A d \in WellFormedDelNote :
       (/\ awaiting_action = "edit_delnote"
        /\ text_handler(d[1])
        /\ d[2] \notin DOMAIN notes \/ d[3] = 0 \/ d[3] > Len(notes[d[2]])) =>
         reply'.kind = "NotFound" /\ StoreKept]_vars

\* "#w 0" or "#w 2" was just refused while w holds one note
C15_Witness ==
  /\ reply = Reply("NotFound", <<W>>)
  /\ W \in DOMAIN notes
  /\ Len(notes[W]) = 1

\* C19: a successful DeleteNote shortens the list of all by at most one
\* entry, whichever category is named and even when all holds equal entries.
C19_DeleteNoteShortensAllByOne ==
  [][reply'.kind = "NoteDeleted" => LenAll(notes') >= LenAll(notes) - 1]_vars

\* ---------------------------------------------- properties of the sessions
\* no list of the store is longer after the step, and a list the step creates
\* is empty
NothingAppended ==
  \A c \in DOMAIN notes' :
    Len(notes'[c]) <= (IF c \in DOMAIN notes THEN Len(notes[c]) ELSE 0)

\* the note messages, with the tags they name
NoteInputs == {<<TxtAll, {}>>, <<TxtDelW1, {W}>>}

\* C16: a note message received while no edit action awaits its input opens
\* a selection with the tags of the text selected and appends nothing when the
\* store has a category other than all (empty or not); otherwise it is
\* committed at once to all and to each of its tags and no selection remains.
\* While the selection stays open, no step but Done appends to a list.
C16_SelectionOrImmediateCommit ==
  [][/\ \A d \in NoteInputs :
          (awaiting_action = NoAction /\ text_handler(d[1])) =>
            IF DOMAIN notes \ {ALL} # {}
            THEN /\ reply'.kind = "SelectCategories"
                 /\ pending_note' = d[1]
                 /\ selected_categories' = d[2]
                 /\ StoreKept
            ELSE /\ reply'.kind = "Saved"
                 /\ pending_note' = NoText
                 /\ pending_note_ts' = NoTs
                 /\ selected_categories' = {}
                 /\ DOMAIN notes' = {ALL} \cup d[2]
                 /\ \A c \in DOMAIN notes' :
                      notes'[c] = Append(IF c \in DOMAIN notes THEN notes[c] ELSE <<>>,
                                         <<d[1], now>>)
     /\ (SelectionActive /\ SelectionActive' /\ ~category_callback(DONE)) =>
          NothingAppended]_vars

\* "#w 1" was just received while the category w exists and is empty: the
\* selection is open with w selected and nothing is saved
C16_Witness ==
  /\ reply = Reply("SelectCategories", <<W>>)
  /\ pending_note = TxtDelW1
  /\ selected_categories = {W}
  /\ notes[W] = <<>>
  /\ notes[ALL] = <<>>

\* C17: a text message received while an edit action awaits its input is
\* answered by the edit flow; it appends no note, creates no category and
\* leaves the pending text, timestamp and selection unchanged, also when the
\* text names hashtags or is a list of tags.
C17_EditInputOnlyEdits ==
  [][\A raw \in EditTexts :
       (EditActive /\ text_handler(raw)) =>
         /\ reply'.kind \in EditReplies
         /\ UNCHANGED <<pending_note, pending_note_ts, selected_categories>>
         /\ DOMAIN notes' \subseteq DOMAIN notes \cup {ALL}
         /\ NothingAppended]_vars

\* the list of tags "#w" was just taken as a DeleteCategory input while a
\* note that selects w is pending
C17_Witness ==
  /\ reply = Reply("CategoryDeleted", <<W>>)
  /\ pending_note = TxtDelW1
  /\ selected_categories = {W}
  /\ W \notin DOMAIN notes

\* C18: only Done and a new note message change the pending text and
\* timestamp of an open selection; every entry a step appends holds the text
\* pending before a Done press, or the text of the note message the step
\* commits at once: a superseded text is appended to no list.
C18_SessionEndsByDoneOrNote ==
  [][/\ (SelectionActive /\ ~UNCHANGED <<pending_note, pending_note_ts>>) =>
          \/ category_callback(DONE)
          \/ \E d \in NoteInputs : awaiting_action = NoAction /\ text_handler(d[1])
     /\ \A c \in DOMAIN notes' :
          LET old == IF c \in DOMAIN notes THEN notes[c] ELSE <<>>
          IN  Len(notes'[c]) > Len(old) =>
                /\ Len(notes'[c]) = Len(old) + 1
                /\ \/ /\ category_callback(DONE)
                      /\ notes'[c][Len(notes'[c])][1] = pending_note
                   \/ \E d \in NoteInputs :
                        /\ awaiting_action = NoAction
                        /\ text_handler(d[1])
                        /\ notes'[c][Len(notes'[c])][1] = d[1]]_vars

\* an edit input was just refused while a note received before the clock
\* advanced is still pending
C18_Witness ==
  /\ reply.kind = "InvalidFormat"
  /\ SelectionActive
  /\ pending_note_ts < now

\* C20: a category DeleteCategory removed is absent from the store until a
\* later message names it; a Done press or a toggle of a selection opened
\* before the deletion does not create it again.
C20_DeletedStaysAbsent == gone \cap DOMAIN notes = {}

====
